---- MODULE Spec2Model ----
(***************************************************************************)
(* Model of the two SDL3 example programs of the repository:               *)
(*   - BasicWindowTutorial.cpp : main() of the Window Demo                  *)
(*   - SDL_Test_File.cpp       : the Points/Ship demo, driven by SDL's      *)
(*                               callback run-loop (SDL_AppInit,            *)
(*                               SDL_AppEvent, SDL_AppIterate, SDL_AppQuit) *)
(*                                                                         *)
(* Numbers.  The C code computes in IEEE single precision.  Pixel          *)
(* coordinates and speeds are modelled in fixed point, one unit being      *)
(* 2^-15 pixel (2^-15 pixel/second), which is the spacing of floats in     *)
(* [256,512).  RoundF32 rounds a result to the float grid (24-bit          *)
(* significand, ties to even), so the spacing is 2 units in [512,1024),    *)
(* 4 units in [1024,2048), and so on.  Bits finer than one unit, which     *)
(* floats below 256 have, are dropped.  The ship geometry is modelled in   *)
(* 1/1000 pixel and milliradians.                                          *)
(*                                                                         *)
(* A behaviour is one run of one of the two executables; Init chooses      *)
(* which.                                                                  *)
(***************************************************************************)
EXTENDS Integers, Naturals, Sequences, FiniteSets, TLC

\* ------------------------------------------------------------------ bounds
\* number of array slots modelled (a prefix of the NUM_POINTS slots)
MaxPoints == 1
\* number of clock advances SDL_GetTicks is followed through
MaxClockSteps == 1

\* -------------------------------------------------------- program constants
WINDOW_WIDTH == 640
WINDOW_HEIGHT == 480
NUM_POINTS == 500
MIN_PIXELS_PER_SECOND == 30
MAX_PIXELS_PER_SECOND == 960

\* ------------------------------------------------------- float arithmetic
\* units per pixel of the fixed-point representation (2^15)
FP == 32768
\* 2^24: integers of units below it are exact floats
Mant == 16777216

\* spacing, in units, of the floats around the non-negative value v
RECURSIVE Ulp(_)
Ulp(v) == IF v < Mant THEN 1 ELSE 2 * Ulp(v \div 2)

\* v rounded to a multiple of g, ties to the even multiple
RoundTo(v, g) ==
    LET q == v \div g
        r == v % g
    IN  IF 2 * r < g THEN q * g
        ELSE IF 2 * r > g THEN (q + 1) * g
        ELSE IF q % 2 = 0 THEN q * g ELSE (q + 1) * g

\* a non-negative value rounded to single precision
RoundF32(v) == RoundTo(v, Ulp(v))

\* the value whole + num/den (0 <= num < den) rounded to single precision in
\* one rounding step
RoundFrac(whole, num, den) ==
    LET g == Ulp(whole)
        q == whole \div g
        rem == (whole % g) * den + num
    IN  IF 2 * rem < g * den THEN q * g
        ELSE IF 2 * rem > g * den THEN (q + 1) * g
        ELSE IF q % 2 = 0 THEN q * g ELSE (q + 1) * g

\* SDL_randf() returns k * 2^-24 for a 24-bit k, so a value in [0, 1).
\* The draws followed: the smallest, one in the middle (15/32 + 2^-15) and
\* the largest.
RandDraws == {0, 7864832, Mant - 1}

\* SDL_randf() * n in single precision, for the draw k and an integer
\* n < 1024: the exact product is k * n * 2^-24 pixel = k * n / 512 units
RandTimes(k, n) ==
    LET kh == k \div 512
        kl == k % 512
    IN  RoundFrac(kh * n + ((kl * n) \div 512), (kl * n) % 512, 512)

\* elapsed * speed in single precision, for elapsed = ms / 1000 seconds and
\* a speed in units per second (the clock of the model advances in steps
\* whose length in seconds is an exact float)
Distance(ms, speed) ==
    LET s == ms \div 1000
        m == ms % 1000
        q == speed \div 1000
        r == speed % 1000
    IN  RoundFrac(s * speed + q * m + ((r * m) \div 1000), (r * m) % 1000, 1000)

\* ------------------------------------------------------------------ state
VARIABLES
    program,        \* which of the two executables this run is
    \* Window Demo (BasicWindowTutorial.cpp)
    wd_pc,          \* position of main
    wd_calls,       \* the library calls main has made, in order
    wd_window,      \* the local 'window' of main
    wd_status,      \* << >> until main returns, then <<its exit status>>
    \* Points/Ship demo (SDL_Test_File.cpp)
    phase,          \* run-loop: "boot", "running", "quitting", "exited"
    ticks,          \* what SDL_GetTicks() returns now, in ms
    window,         \* static SDL_Window *window
    renderer,       \* static SDL_Renderer *renderer
    glowTex,        \* static SDL_Texture *glowTex
    points,         \* static SDL_FPoint points[]
    point_speeds,   \* static float point_speeds[]
    last_time,      \* static Uint64 last_time
    callback,       \* the callback that returned last
    result,         \* what it returned
    event,          \* type of the event the last step delivered, if it did
    initlog,        \* library calls made by SDL_AppInit, with their outcome
    frame           \* what the last SDL_AppIterate drew and presented

wdvars == <<wd_pc, wd_calls, wd_window, wd_status>>
appvars == <<window, renderer, glowTex, points, point_speeds, last_time>>
pdvars == <<phase, ticks, window, renderer, glowTex, points, point_speeds,
            last_time, callback, result, event, initlog, frame>>
vars == <<program, wd_pc, wd_calls, wd_window, wd_status, phase, ticks,
          window, renderer, glowTex, points, point_speeds, last_time,
          callback, result, event, initlog, frame>>

NULL == "NULL"
NONE == "none"
\* glowTex before create_glow_texture has run (the static is NULL)
NullTexture == [w |-> 0, h |-> 0, blend |-> NONE, alphaMod |-> 0]
\* no frame has been presented yet
NoFrame == [elapsedMs |-> 0, stars |-> << >>, flame |-> << >>, ship |-> << >>,
            blits |-> << >>, presents |-> 0]
\* the slots of points[] and point_speeds[] that are followed
Slots == IF MaxPoints < NUM_POINTS THEN MaxPoints ELSE NUM_POINTS
Idx == 1 .. Slots

\* ------------------------------------------- Window Demo: main, statement
\* by statement.  wd_pc names the statement main executes next.

\* (variant: the failure branch does not return)
MainAfterInit_NoReturn(ok) == "create"

\* where main goes after 'if (!SDL_Init(SDL_INIT_VIDEO))'
MainAfterInit(ok) == IF ok THEN "create" ELSE "fail"

\* (variant: a NULL window is treated as an error)
MainAfterCreate_Checked(win) == IF win = NULL THEN "fail" ELSE "delay"

\* where main goes after 'window = SDL_CreateWindow(...)': the returned
\* pointer is stored and never tested
MainAfterCreate(win) == "delay"

\* value of the return statement main reaches
MainStatus(pc) == IF pc = "fail" THEN -1 ELSE 0

WD_Init ==
    /\ program = "window" /\ wd_pc = "init"
    /\ \E ok \in BOOLEAN :
         /\ wd_calls' = Append(wd_calls, IF ok THEN "SDL_Init" ELSE "SDL_Init!")
         /\ wd_pc' = MainAfterInit(ok)
    /\ UNCHANGED <<program, wd_window, wd_status>>
    /\ UNCHANGED pdvars

\* the failure branch: SDL_Log("Failed!"); return -1;
WD_Fail ==
    /\ program = "window" /\ wd_pc = "fail"
    /\ wd_calls' = Append(wd_calls, "SDL_Log")
    /\ wd_status' = <<MainStatus(wd_pc)>>
    /\ wd_pc' = "returned"
    /\ UNCHANGED <<program, wd_window>>
    /\ UNCHANGED pdvars

WD_CreateWindow ==
    /\ program = "window" /\ wd_pc = "create"
    /\ \E win \in {NULL, "win"} :
         /\ wd_window' = win
         /\ wd_pc' = MainAfterCreate(win)
    /\ wd_calls' = Append(wd_calls, "SDL_CreateWindow")
    /\ UNCHANGED <<program, wd_status>>
    /\ UNCHANGED pdvars

WD_Delay ==
    /\ program = "window" /\ wd_pc = "delay"
    /\ wd_calls' = Append(wd_calls, "SDL_Delay(5000)")
    /\ wd_pc' = "quit"
    /\ UNCHANGED <<program, wd_window, wd_status>>
    /\ UNCHANGED pdvars

WD_Quit ==
    /\ program = "window" /\ wd_pc = "quit"
    /\ wd_calls' = Append(wd_calls, "SDL_Quit")
    /\ wd_pc' = "return"
    /\ UNCHANGED <<program, wd_window, wd_status>>
    /\ UNCHANGED pdvars

WD_Return ==
    /\ program = "window" /\ wd_pc = "return"
    /\ wd_status' = <<MainStatus(wd_pc)>>
    /\ wd_pc' = "returned"
    /\ UNCHANGED <<program, wd_calls, wd_window>>
    /\ UNCHANGED pdvars

\* --------------------------------------------- Points/Ship demo: helpers
SDL_APP_CONTINUE == "SDL_APP_CONTINUE"
SDL_APP_SUCCESS == "SDL_APP_SUCCESS"
SDL_APP_FAILURE == "SDL_APP_FAILURE"

\* event types the run-loop delivers
EventTypes == {"SDL_EVENT_QUIT", "SDL_EVENT_KEY_DOWN", "SDL_EVENT_MOUSE_MOTION"}

\* lengths of the clock advances followed, in ms (0.5 s is an exact float)
TickStepsMs == {500}
ClockLimitMs == MaxClockSteps * 500

\* (variant: the range is not reduced by the minimum)
NewSpeed_FullRange(k) ==
    RoundF32(MIN_PIXELS_PER_SECOND * FP + RandTimes(k, MAX_PIXELS_PER_SECOND))

\* MIN_PIXELS_PER_SECOND + (SDL_randf() * (MAX_PIXELS_PER_SECOND - MIN_PIXELS_PER_SECOND))
NewSpeed(k) ==
    RoundF32(MIN_PIXELS_PER_SECOND * FP
             + RandTimes(k, MAX_PIXELS_PER_SECOND - MIN_PIXELS_PER_SECOND))

\* points[i].x = SDL_randf() * ((float)WINDOW_WIDTH); .y likewise with HEIGHT
SeedPoint(kx, ky) ==
    [x |-> RandTimes(kx, WINDOW_WIDTH), y |-> RandTimes(ky, WINDOW_HEIGHT)]

\* (variant: only x is advanced)
Advance_XOnly(p, distance) == [x |-> RoundF32(p.x + distance), y |-> p.y]

\* points[i].x += distance; points[i].y += distance;
Advance(p, distance) ==
    [x |-> RoundF32(p.x + distance), y |-> RoundF32(p.y + distance)]

\* (points[i].x >= WINDOW_WIDTH) || (points[i].y >= WINDOW_HEIGHT)
OutOfWindow(p) == (p.x >= WINDOW_WIDTH * FP) \/ (p.y >= WINDOW_HEIGHT * FP)

\* (variant: the left-edge branch scales by the width)
Respawn_WidthTwice(edge, k) ==
    IF edge # 0
    THEN [x |-> RandTimes(k, WINDOW_WIDTH), y |-> 0]
    ELSE [x |-> 0, y |-> RandTimes(k, WINDOW_WIDTH)]

\* the two branches of 'if (SDL_rand(2))', edge being what SDL_rand(2) returned
Respawn(edge, k) ==
    IF edge # 0
    THEN [x |-> RandTimes(k, WINDOW_WIDTH), y |-> 0]
    ELSE [x |-> 0, y |-> RandTimes(k, WINDOW_HEIGHT)]

\* every outcome of one pass of the loop body for a slot holding point p with
\* speed sp, ms milliseconds after the previous frame
UpdateSlot(p, sp, ms) ==
    LET a == Advance(p, Distance(ms, sp))
    IN  IF OutOfWindow(a)
        THEN {[pt |-> Respawn(edge, k), sp |-> NewSpeed(ks)] :
                 edge \in 0 .. 1, k \in RandDraws, ks \in RandDraws}
        ELSE {[pt |-> a, sp |-> sp]}

\* every outcome of the loop over slots 1 .. n
RECURSIVE UpdateAll(_, _)
UpdateAll(n, ms) ==
    IF n = 0 THEN {<< >>}
    ELSE {Append(done, o) : done \in UpdateAll(n - 1, ms),
                            o \in UpdateSlot(points[n], point_speeds[n], ms)}

\* every outcome of the seeding loop of SDL_AppInit over slots 1 .. n
RECURSIVE SeedAll(_)
SeedAll(n) ==
    IF n = 0 THEN {<< >>}
    ELSE {Append(done, [pt |-> SeedPoint(kx, ky), sp |-> NewSpeed(ks)]) :
             done \in SeedAll(n - 1),
             kx \in RandDraws, ky \in RandDraws, ks \in RandDraws}

\* create_glow_texture: a (2 radius) x (2 radius) render-target texture with
\* additive blending.  SDL creates a texture with alpha modulation 255 and
\* create_glow_texture does not set it.
create_glow_texture(radius) ==
    [w |-> radius * 2, h |-> radius * 2, blend |-> "SDL_BLENDMODE_ADD",
     alphaMod |-> 255]

\* sin, in thousandths, of an angle in milliradians (Bhaskara's rational
\* approximation on [0, pi], error below 0.2 percent)
Sin1000(mrad) ==
    LET t == mrad % 6283
        h == IF t <= 3142 THEN t ELSE t - 3142
        pr == (h * (3142 - h)) \div 100
        v == (16000 * pr) \div (493480 - 4 * pr)
    IN  IF t <= 3142 THEN v ELSE 0 - v

Cos1000(mrad) == Sin1000(mrad + 1571)

\* rotate_point: the point (x, y) turned about (cx, cy), in 1/1000 pixel
rotate_point(cx, cy, x, y, angle) ==
    LET s == Sin1000(angle)
        c == Cos1000(angle)
        tx == x - cx
        ty == y - cy
        rx == (tx * c - ty * s) \div 1000
        ry == (tx * s + ty * c) \div 1000
    IN  [x |-> rx + cx, y |-> ry + cy]

\* the ship, flame and glow part of what SDL_AppIterate hands to the
\* renderer, for the timestamp now and the glow texture tex as it is when
\* the blits are issued
DrawShip(now, tex) ==
    LET cx == WINDOW_WIDTH * 500
        cy == WINDOW_HEIGHT * 500
        size == 20000
        angle == (0 - 785) + (Sin1000(now * 5) \div 10)
        v1 == rotate_point(cx, cy, cx, cy - size, angle)
        v2 == rotate_point(cx, cy, cx - size, cy + size, angle)
        v3 == rotate_point(cx, cy, cx + size, cy + size, angle)
        tx == (v2.x + v3.x) \div 2
        ty == (v2.y + v3.y) \div 2
        flame_len == 25000 + 6 * Sin1000(now * 20)
        fx == tx - ((Cos1000(angle) * flame_len) \div 1000)
        fy == ty - ((Sin1000(angle) * flame_len) \div 1000)
        alpha == tex.alphaMod
    IN  [flame |-> << [x |-> tx, y |-> ty], v2, v3 >>,
         ship |-> << v1, v2, v3 >>,
         blits |-> << [x |-> fx - 40000, y |-> fy - 40000,
                       w |-> 80000, h |-> 80000, alphaMod |-> alpha],
                      [x |-> cx - 35000, y |-> cy - 35000,
                       w |-> 70000, h |-> 70000, alphaMod |-> alpha],
                      [x |-> cx - 120000, y |-> cy - 120000,
                       w |-> 240000, h |-> 240000, alphaMod |-> alpha] >>]

\* SDL_SetTextureAlphaMod(glowTex, 40)
SetTextureAlphaMod(tex, a) == [tex EXCEPT !.alphaMod = a]

\* (variant: the window/renderer failure is logged but not returned)
AppInitResult_NoCreateCheck(initOk, createOk) ==
    IF ~initOk THEN SDL_APP_FAILURE ELSE SDL_APP_CONTINUE

\* the value SDL_AppInit returns
AppInitResult(initOk, createOk) ==
    IF ~initOk THEN SDL_APP_FAILURE
    ELSE IF ~createOk THEN SDL_APP_FAILURE
    ELSE SDL_APP_CONTINUE

\* (variant: a key press quits as well)
AppEventResult_KeyQuits(type) ==
    IF type \in {"SDL_EVENT_QUIT", "SDL_EVENT_KEY_DOWN"}
    THEN SDL_APP_SUCCESS ELSE SDL_APP_CONTINUE

\* the value SDL_AppEvent returns
AppEventResult(type) ==
    IF type = "SDL_EVENT_QUIT" THEN SDL_APP_SUCCESS ELSE SDL_APP_CONTINUE

\* (variant: the timestamp is not stored)
IterateLastTime_Stale(now, last) == last

\* the value SDL_AppIterate stores in last_time
IterateLastTime(now, last) == now

\* the value SDL_AppIterate returns
AppIterateResult == SDL_APP_CONTINUE

\* the run-loop goes on after SDL_APP_CONTINUE and calls SDL_AppQuit after
\* any other result
PhaseAfter(res) == IF res = SDL_APP_CONTINUE THEN "running" ELSE "quitting"

\* ------------------------------------------- Points/Ship demo: the actions
\* the millisecond clock behind SDL_GetTicks advances
Tick ==
    /\ program = "points" /\ phase \in {"boot", "running"}
    /\ \E step \in TickStepsMs :
         /\ ticks + step <= ClockLimitMs
         /\ ticks' = ticks + step
    /\ UNCHANGED <<program, phase, callback, result, event, initlog, frame>>
    /\ UNCHANGED appvars
    /\ UNCHANGED wdvars

SDL_AppInit ==
    /\ program = "points" /\ phase = "boot"
    /\ \E initOk \in BOOLEAN, createOk \in BOOLEAN :
         LET res == AppInitResult(initOk, createOk)
             tried == IF initOk THEN <<"SDL_SetAppMetadata", "SDL_Init">>
                      ELSE <<"SDL_SetAppMetadata", "SDL_Init!", "SDL_Log">>
             made == IF ~initOk THEN tried
                     ELSE IF createOk
                          THEN Append(tried, "SDL_CreateWindowAndRenderer")
                          ELSE tried \o <<"SDL_CreateWindowAndRenderer!", "SDL_Log">>
         IN  /\ result' = res
             /\ IF res = SDL_APP_CONTINUE
                THEN /\ window' = "window"
                     /\ renderer' = "renderer"
                     /\ glowTex' = create_glow_texture(40)
                     /\ \E seeds \in SeedAll(Slots) :
                          /\ points' = [i \in Idx |-> seeds[i].pt]
                          /\ point_speeds' = [i \in Idx |-> seeds[i].sp]
                     /\ last_time' = ticks
                     /\ initlog' = made \o <<"SDL_SetRenderLogicalPresentation",
                                            "create_glow_texture", "SDL_randf",
                                            "SDL_GetTicks">>
                ELSE /\ initlog' = made
                     /\ UNCHANGED appvars
             /\ phase' = PhaseAfter(res)
    /\ callback' = "SDL_AppInit"
    /\ UNCHANGED <<program, ticks, event, frame>>
    /\ UNCHANGED wdvars

SDL_AppEvent ==
    /\ program = "points" /\ phase = "running"
    /\ \E type \in EventTypes :
         /\ event' = type
         /\ result' = AppEventResult(type)
         /\ phase' = PhaseAfter(AppEventResult(type))
    /\ callback' = "SDL_AppEvent"
    /\ UNCHANGED <<program, ticks, initlog, frame>>
    /\ UNCHANGED appvars
    /\ UNCHANGED wdvars

SDL_AppIterate ==
    /\ program = "points" /\ phase = "running"
    /\ LET now == ticks
           elapsedMs == now - last_time
       IN  /\ \E upd \in UpdateAll(Slots, elapsedMs),
                 drawn \in {DrawShip(now, glowTex)} :
                /\ points' = [i \in Idx |-> upd[i].pt]
                /\ point_speeds' = [i \in Idx |-> upd[i].sp]
                \* SDL_RenderPoints, 2 x SDL_RenderGeometry,
                \* 3 x SDL_RenderTexture, SDL_RenderPresent
                /\ frame' = [elapsedMs |-> elapsedMs,
                             stars |-> [i \in Idx |-> upd[i].pt],
                             flame |-> drawn.flame,
                             ship |-> drawn.ship,
                             blits |-> drawn.blits,
                             presents |-> 1]
           /\ last_time' = IterateLastTime(now, last_time)
    /\ glowTex' = SetTextureAlphaMod(glowTex, 40)
    /\ result' = AppIterateResult
    /\ phase' = PhaseAfter(AppIterateResult)
    /\ callback' = "SDL_AppIterate"
    /\ event' = NONE
    /\ UNCHANGED <<program, ticks, window, renderer, initlog>>
    /\ UNCHANGED wdvars

\* SDL_AppQuit has an empty body; the run-loop ends after it
SDL_AppQuit ==
    /\ program = "points" /\ phase = "quitting"
    /\ phase' = "exited"
    /\ callback' = "SDL_AppQuit"
    /\ event' = NONE
    /\ UNCHANGED <<program, ticks, result, initlog, frame>>
    /\ UNCHANGED appvars
    /\ UNCHANGED wdvars

\* ------------------------------------------------------------ specification
Init ==
    /\ program \in {"window", "points"}
    /\ wd_pc = "init"
    /\ wd_calls = << >>
    /\ wd_window = "uninitialized"
    /\ wd_status = << >>
    /\ phase = "boot"
    /\ ticks = 0
    /\ window = NULL
    /\ renderer = NULL
    /\ glowTex = NullTexture
    /\ points = [i \in Idx |-> [x |-> 0, y |-> 0]]
    /\ point_speeds = [i \in Idx |-> 0]
    /\ last_time = 0
    /\ callback = NONE
    /\ result = NONE
    /\ event = NONE
    /\ initlog = << >>
    /\ frame = NoFrame

Next ==
    \/ WD_Init
    \/ WD_Fail
    \/ WD_CreateWindow
    \/ WD_Delay
    \/ WD_Quit
    \/ WD_Return
    \/ Tick
    \/ SDL_AppInit
    \/ SDL_AppEvent
    \/ SDL_AppIterate
    \/ SDL_AppQuit

Spec == Init /\ [][Next]_vars

\* ------------------------------------------------------------- properties
InWindow(p) ==
    /\ 0 <= p.x /\ p.x < WINDOW_WIDTH * FP
    /\ 0 <= p.y /\ p.y < WINDOW_HEIGHT * FP

OnEdge(p) == p.x = 0 \/ p.y = 0

SpeedInRange(sp) ==
    /\ MIN_PIXELS_PER_SECOND * FP <= sp
    /\ sp <= MAX_PIXELS_PER_SECOND * FP

Has(log, fn) == \E n \in 1 .. Len(log) : log[n] = fn

\* the step is a call of SDL_AppIterate: of the steps the run-loop takes
\* while running, it is the one that leaves the clock alone and is recorded
\* as the callback that returned last
IterateStep ==
    /\ program = "points" /\ phase = "running"
    /\ callback' = "SDL_AppIterate"
    /\ ticks' = ticks

\* C1: every point is inside the window, 0 <= x < 640 and 0 <= y < 480,
\* after SDL_AppInit and after every SDL_AppIterate, and so is every point
\* handed to SDL_RenderPoints.
C1_PointsInWindow ==
    /\ \A i \in Idx : InWindow(points[i])
    /\ \A i \in 1 .. Len(frame.stars) : InWindow(frame.stars[i])

\* a frame was drawn, some time after the previous one, with a point on the
\* top edge (so respawned in that call: an advanced point has y > 0) at the
\* largest float below the window width
C1_Witness ==
    /\ callback = "SDL_AppIterate"
    /\ frame.elapsedMs > 0
    /\ \E i \in Idx : /\ frame.stars[i].y = 0
                      /\ frame.stars[i].x = RandTimes(Mant - 1, WINDOW_WIDTH)
    /\ RandTimes(Mant - 1, WINDOW_WIDTH) = WINDOW_WIDTH * FP - 2

\* C2: SDL_AppEvent returns SDL_APP_SUCCESS for SDL_EVENT_QUIT and
\* SDL_APP_CONTINUE for every other event type, and leaves points, speeds,
\* last_time, the glow texture, window and renderer as they were.
C2_EventOnlyQuits ==
    [][SDL_AppEvent =>
          /\ result' = IF event' = "SDL_EVENT_QUIT"
                       THEN SDL_APP_SUCCESS ELSE SDL_APP_CONTINUE
          /\ UNCHANGED appvars
          /\ UNCHANGED frame]_vars

\* a key press was handled after a frame had been drawn, and the loop goes on
C2_Witness ==
    /\ callback = "SDL_AppEvent"
    /\ event = "SDL_EVENT_KEY_DOWN"
    /\ result = SDL_APP_CONTINUE
    /\ phase = "running"
    /\ frame.presents = 1

\* C3: once SDL_AppInit has seeded the arrays, every speed is within
\* [MIN_PIXELS_PER_SECOND, MAX_PIXELS_PER_SECOND], also after any respawn.
C3_SpeedInRange ==
    window # NULL => \A i \in Idx : SpeedInRange(point_speeds[i])

\* a point respawned on the top edge was given the speed of the largest draw
C3_Witness ==
    /\ callback = "SDL_AppIterate"
    /\ frame.elapsedMs > 0
    /\ \E i \in Idx : /\ points[i].y = 0
                      /\ point_speeds[i] = NewSpeed(Mant - 1)
                      /\ point_speeds[i] > (MAX_PIXELS_PER_SECOND - 1) * FP

InitFailed == Has(initlog, "SDL_Init!")
CreateFailed == Has(initlog, "SDL_CreateWindowAndRenderer!")

\* C4: SDL_AppInit returns SDL_APP_FAILURE exactly when SDL_Init or
\* SDL_CreateWindowAndRenderer failed and SDL_APP_CONTINUE otherwise; after
\* an SDL_Init failure the window/renderer creation is not attempted; after
\* either failure no glow texture is built, no point is seeded and last_time
\* is not recorded.
C4_InitFailure ==
    callback = "SDL_AppInit" =>
        /\ result = SDL_APP_FAILURE <=> (InitFailed \/ CreateFailed)
        /\ result \in {SDL_APP_FAILURE, SDL_APP_CONTINUE}
        /\ InitFailed => /\ ~Has(initlog, "SDL_CreateWindowAndRenderer")
                         /\ ~Has(initlog, "SDL_CreateWindowAndRenderer!")
        /\ (InitFailed \/ CreateFailed) =>
              /\ glowTex = NullTexture
              /\ ~Has(initlog, "create_glow_texture")
              /\ ~Has(initlog, "SDL_randf")
              /\ \A i \in Idx : points[i] = [x |-> 0, y |-> 0]
              /\ \A i \in Idx : point_speeds[i] = 0
              /\ ~Has(initlog, "SDL_GetTicks")
              /\ last_time = 0

\* the window/renderer creation failed at a time when the clock had advanced
C4_Witness ==
    /\ callback = "SDL_AppInit"
    /\ CreateFailed
    /\ ticks > 0
    /\ result = SDL_APP_FAILURE

\* C5: Window Demo: when SDL_Init fails, main logs and returns -1, having
\* created no window, not slept and not called SDL_Quit.
C5_WindowInitFailure ==
    Has(wd_calls, "SDL_Init!") =>
        /\ ~Has(wd_calls, "SDL_CreateWindow")
        /\ ~Has(wd_calls, "SDL_Delay(5000)")
        /\ ~Has(wd_calls, "SDL_Quit")
        /\ wd_window = "uninitialized"
        /\ wd_pc = "returned" => wd_status = << -1 >>
        /\ wd_pc \in {"fail", "returned"}

\* main has returned after a failed SDL_Init
C5_Witness ==
    /\ wd_pc = "returned"
    /\ wd_calls = <<"SDL_Init!", "SDL_Log">>
    /\ wd_status = << -1 >>

WdFullRun == <<"SDL_Init", "SDL_CreateWindow", "SDL_Delay(5000)", "SDL_Quit">>

\* C6: Window Demo: when SDL_Init succeeds, main makes exactly one window
\* creation, then one 5000 ms delay, then SDL_Quit, and returns 0, whether
\* or not the window creation succeeded.
C6_WindowSequence ==
    Has(wd_calls, "SDL_Init") =>
        /\ Len(wd_calls) <= Len(WdFullRun)
        /\ wd_calls = SubSeq(WdFullRun, 1, Len(wd_calls))
        /\ wd_pc = "returned" => (wd_calls = WdFullRun /\ wd_status = << 0 >>)
        /\ wd_status # << >> => wd_pc = "returned"

\* main has returned 0 although SDL_CreateWindow returned NULL
C6_Witness ==
    /\ wd_pc = "returned"
    /\ wd_window = NULL
    /\ wd_calls = WdFullRun
    /\ wd_status = << 0 >>

\* C7: the alpha modulation in effect at each of the three glow blits of
\* every frame is 40, from the first SDL_AppIterate call onward.
C7_AlphaAlways40 ==
    \A n \in 1 .. Len(frame.blits) : frame.blits[n].alphaMod = 40

\* the flame tip SDL_AppIterate computed: the centre of the thruster glow
FlameTip == [x |-> frame.blits[1].x + 40000, y |-> frame.blits[1].y + 40000]

\* C8: the flame triangle of every frame has the flame tip and the ship's
\* two rotated base vertices as its vertices.
C8_FlameHasTip ==
    frame.presents = 1 =>
        /\ frame.flame[1] = FlameTip
        /\ frame.flame[2] = frame.ship[2]
        /\ frame.flame[3] = frame.ship[3]

Abs(n) == IF n < 0 THEN 0 - n ELSE n

C10_IterateContinues ==
    [][/\ IterateStep =>
             /\ result' = SDL_APP_CONTINUE
             /\ phase' = "running"
             /\ frame'.presents = 1
             /\ last_time' = ticks
       /\ (phase = "running" /\ phase' # "running") =>
             /\ callback' = "SDL_AppEvent"
             /\ event' = "SDL_EVENT_QUIT"
             /\ result' = SDL_APP_SUCCESS
       /\ window' # NULL => result' # SDL_APP_FAILURE
       /\ last_time' >= last_time]_vars

\* the program has ended with success after drawing a frame at a later
\* timestamp than the one SDL_AppInit recorded
C10_Witness ==
    /\ phase = "exited"
    /\ result = SDL_APP_SUCCESS
    /\ frame.presents = 1
    /\ frame.elapsedMs > 0
    /\ last_time > 0

====
